---- MODULE Spec2Model ----
(***************************************************************************)
(* Idempotent staging loader of project-samba-insight.                     *)
(*                                                                         *)
(* Models BigQueryLoader.load_csv_file (src/ingestion/bigquery_loader.py)  *)
(* together with the parts of BigQueryHelper it calls                      *)
(* (src/utils/bigquery_helper.py): the ledger table _load_metadata, the    *)
(* destination tables, the local files, and each loader process's position *)
(* inside one load_csv_file call.                                          *)
(*                                                                         *)
(* File names and table names are sequences of tokens (a token is a piece  *)
(* of the string such as "orders" or ".csv"); file contents are sequences  *)
(* of bytes.  None is NoTable for a table name, NoHash for a file hash and *)
(* NoRows for LoadJob.output_rows.  load_id and load_timestamp are wall    *)
(* clock readings used for traceability only and are not modelled.         *)
(***************************************************************************)
EXTENDS Integers, Sequences, FiniteSets, TLC

\* ------------------------------------------------------------------ bounds
\* The ledger holds at most MaxLedger records: no call starts beyond it.
MaxLedger == 2
\* LoadJob.output_rows is None or a number in 0..MaxRows.
MaxRows == 1

\* A file name has a stem and at most MaxExt extensions.
MaxExt == 2

\* A hashed file has at most MaxBytes bytes, read at most MaxChunk at a time.
MaxBytes == 4
MaxChunk == 2

\* ------------------------------------------------------- values and inputs
NoTable == <<>>
NoHash == -1
NoRows == -1

\* The loader processes; Spec runs process 1 alone.
Procs == {1, 2}
SeqProcs == {1}

CustomersCsv == <<"olist_customers_dataset", ".csv">>
UnknownCsv == <<"unknown_file", ".csv">>
NotesTxt == <<"notes", ".txt">>
\* The paths callers of load_csv_file pass under Spec.
Paths == {CustomersCsv}
\* The entries the data directory can hold.
DirPaths == {CustomersCsv, UnknownCsv, NotesTxt}
AllPaths == Paths \cup DirPaths

\* Byte contents a file can have while it exists.
Contents == {<<1, 2>>, <<2, 1>>}

\* The explicit table_name arguments callers pass (NoTable: none given).
TableArgs == {NoTable, <<"t1">>}

OutputRows == {NoRows} \cup (0..MaxRows)

Last(q) == q[Len(q)]

\* ----------------------------------------------------- TableNameResolver
TABLE_MAPPINGS ==
    ( <<"olist_customers_dataset", ".csv">> :> <<"customers_raw">> ) @@
    ( <<"olist_geolocation_dataset", ".csv">> :> <<"geolocation_raw">> ) @@
    ( <<"olist_order_items_dataset", ".csv">> :> <<"order_items_raw">> ) @@
    ( <<"olist_order_payments_dataset", ".csv">> :> <<"order_payments_raw">> ) @@
    ( <<"olist_order_reviews_dataset", ".csv">> :> <<"order_reviews_raw">> ) @@
    ( <<"olist_orders_dataset", ".csv">> :> <<"orders_raw">> ) @@
    ( <<"olist_products_dataset", ".csv">> :> <<"products_raw">> ) @@
    ( <<"olist_sellers_dataset", ".csv">> :> <<"sellers_raw">> ) @@
    ( <<"product_category_name_translation", ".csv">> :>
          <<"product_category_translation_raw">> )

\* str.replace(old, new): every occurrence of the token old becomes new.
StrReplace(s, old, new) ==
    [i \in 1..Len(s) |-> IF s[i] = old THEN new ELSE s[i]]

\* Adjacent tokens are one string: "unknown_file" + "_raw" = "unknown_file_raw".
\* Table names are kept as token sequences; two names are the same string
\* when their token sequences are equal (tokens here never split differently).
ResolveTableName(filename, table_name) ==
    IF table_name = NoTable
    THEN IF filename \in DOMAIN TABLE_MAPPINGS
         THEN TABLE_MAPPINGS[filename]
         ELSE StrReplace(filename, ".csv", "_raw")
    ELSE table_name

DestTables == {ResolveTableName(f, t) : f \in AllPaths, t \in TableArgs}

\* ----------------------------------------------------- ContentFingerprinter
\* f.read(4096)
ChunkSize == 4096

\* hash_md5.update(chunk).  The digest is a positional checksum standing for
\* MD5: a function of the byte sequence, fed byte by byte, that tells apart
\* all the contents of the model.
RECURSIVE Md5Update(_, _)
Md5Update(d, chunk) ==
    IF chunk = <<>> THEN d
    ELSE Md5Update(d * 3 + Head(chunk), Tail(chunk))

Min(a, b) == IF a < b THEN a ELSE b

RECURSIVE HashChunks(_, _)
HashChunks(d, rest) ==
    IF rest = <<>> THEN d
    ELSE LET n == Min(ChunkSize, Len(rest))
         IN  HashChunks(Md5Update(d, SubSeq(rest, 1, n)),
                        SubSeq(rest, n + 1, Len(rest)))

GetFileHash(bytes) == HashChunks(0, bytes)

\* A variant whose loop starts a fresh digest for every chunk.
RECURSIVE HashChunksOfRestarts(_, _, _)
HashChunksOfRestarts(n, d, rest) ==
    IF rest = <<>> THEN d
    ELSE LET k == Min(n, Len(rest))
         IN  HashChunksOfRestarts(n, Md5Update(0, SubSeq(rest, 1, k)),
                                  SubSeq(rest, k + 1, Len(rest)))

\* for chunk in iter(lambda: f.read(n), b""): hash_md5.update(chunk), for a
\* read size n (the code reads ChunkSize bytes at a time).
RECURSIVE HashChunksOf(_, _, _)
HashChunksOf(n, d, rest) ==
    IF rest = <<>> THEN d
    ELSE LET k == Min(n, Len(rest))
         IN  HashChunksOf(n, Md5Update(d, SubSeq(rest, 1, k)),
                          SubSeq(rest, k + 1, Len(rest)))

\* hash_md5.hexdigest(): the digest written as DigestHexLen lowercase
\* hexadecimal digits, leading zeros kept.
DigestHexLen == 32
HexDigits == <<"0", "1", "2", "3", "4", "5", "6", "7",
               "8", "9", "a", "b", "c", "d", "e", "f">>

RECURSIVE HexOf(_, _)
HexOf(d, k) ==
    IF k = 0 THEN <<>>
    ELSE Append(HexOf(d \div 16, k - 1), HexDigits[(d % 16) + 1])

HexDigest(d) == HexOf(d, DigestHexLen)

\* ------------------------------------------------------------- LoadLedger
LoadRecord(table_name, source_file, rows_loaded, file_hash, status) ==
    [table_name |-> table_name, source_file |-> source_file,
     rows_loaded |-> rows_loaded, file_hash |-> file_hash, status |-> status]

\* The keyword parameters BigQueryHelper.query declares.
QueryParams == {"sql", "as_dataframe"}
\* The keyword arguments _is_already_loaded passes to it.
IsAlreadyLoadedArgs == {"sql", "as_dataframe", "job_config"}

\* A variant whose query leaves out the file_hash condition.
CountSuccessAnyHash(led, table_name, file_hash) ==
    Cardinality({i \in DOMAIN led :
                    /\ led[i].table_name = table_name
                    /\ led[i].status = "SUCCESS"})

\* SELECT COUNT(*) ... WHERE table_name = @table_name AND file_hash = @file_hash
\* AND status = 'SUCCESS' (a NULL file_hash matches nothing).
CountSuccess(led, table_name, file_hash) ==
    Cardinality({i \in DOMAIN led :
                    /\ led[i].table_name = table_name
                    /\ led[i].file_hash # NoHash
                    /\ led[i].file_hash = file_hash
                    /\ led[i].status = "SUCCESS"})

\* BigQueryHelper.query called with the keyword arguments args: Python raises
\* TypeError for a keyword the function does not declare, before the body
\* runs; otherwise the backend answers or fails.
BqQuery(args, led, table_name, file_hash, backendFault) ==
    IF ~(args \subseteq QueryParams)
    THEN [raised |-> TRUE, exc |-> "TypeError", count |-> 0]
    ELSE IF backendFault
         THEN [raised |-> TRUE, exc |-> "BackendError", count |-> 0]
         ELSE [raised |-> FALSE, exc |-> "none",
               count |-> CountSuccess(led, table_name, file_hash)]

\* A variant that treats a failed query as "already loaded".
IsAlreadyLoadedFailClosed(led, table_name, file_hash, backendFault) ==
    LET r == BqQuery(IsAlreadyLoadedArgs, led, table_name, file_hash, backendFault)
    IN  r.raised \/ r.count > 0

IsAlreadyLoaded(led, table_name, file_hash, backendFault) ==
    LET r == BqQuery(IsAlreadyLoadedArgs, led, table_name, file_hash, backendFault)
    IN  IF r.raised THEN FALSE ELSE r.count > 0

\* A variant that writes with load_dataframe's default WRITE_TRUNCATE.
LedgerWriteTruncate(led, rec) == <<rec>>

\* bq_helper.load_dataframe(..., write_disposition="WRITE_APPEND")
LedgerAppend(led, rec) == Append(led, rec)

\* ------------------------------------------------------------------ state
VARIABLES
    files,      \* files[path] = [exists, readable, bytes]: the local file system
    tables,     \* tables[t] = bytes of the file whose rows table t holds
    ledger,     \* the _load_metadata table: sequence of LoadRecords
    pc,         \* pc[p]: position of process p inside load_csv_file
    cur,        \* cur[p]: locals and step outcomes of p's current call
    dirload,    \* the load_directory call in progress
    resolved,   \* a table-name resolution: its arguments and its result
    meta,       \* the ledger table's existence and each __init__'s position
    hashing     \* a fingerprint computation: its input and its results

vars == <<files, tables, ledger, pc, cur, dirload, resolved, meta, hashing>>
\* What load_csv_file and the file system leave alone.
others == <<dirload, resolved, meta, hashing>>

\* A path is absent, or a regular readable file, or something that exists()
\* but that open() cannot read (a directory, a file without read permission).
Absent == [exists |-> FALSE, readable |-> FALSE, bytes |-> <<>>]
Present(bytes) == [exists |-> TRUE, readable |-> TRUE, bytes |-> bytes]
Unreadable == [exists |-> TRUE, readable |-> FALSE, bytes |-> <<>>]

\* The exception open(path, "rb") raises, "none" if it opens.
OpenError(f) ==
    IF ~f.exists THEN "FileNotFoundError"
    ELSE IF ~f.readable THEN "OSError" ELSE "none"

\* Locals of a call (path, table_arg, table_name, skip_if_loaded, file_hash,
\* output_rows, exc) and the record of what its steps did: bytes_seen are the
\* bytes _get_file_hash read, matched whether the ledger held a matching
\* SUCCESS record when it was asked, loaded the bytes the bulk load read, len0
\* and tables0 the ledger length and the tables when the call began,
\* table_deleted whether delete_table dropped a table since the call began.
IdleCall ==
    [path |-> <<>>, table_arg |-> NoTable, table_name |-> NoTable,
     skip_if_loaded |-> FALSE, file_hash |-> NoHash, bytes_seen |-> <<>>,
     queried |-> FALSE, query_exc |-> "none", matched |-> FALSE,
     bulk |-> "none", bulk_exc |-> "none", output_rows |-> NoRows,
     loaded |-> <<>>,
     rec_success |-> "none", rec_failed |-> "none",
     len0 |-> 0, tables0 |-> <<>>, table_deleted |-> FALSE,
     result |-> "none", exc |-> "none"]

\* The seven columns _ensure_metadata_table gives the ledger table.
MetadataSchema ==
    <<"load_id", "table_name", "source_file", "rows_loaded", "load_timestamp",
      "file_hash", "status">>

\* No load_directory call, no resolution under way; the ledger table exists
\* and every loader is constructed.
DirIdle ==
    [pc |-> "idle", dir_exists |-> TRUE, skip_if_loaded |-> FALSE,
     csv_files |-> <<>>, next |-> 1,
     results |-> <<>>, keys |-> <<>>, attempts |-> <<>>,
     summary |-> [total_files |-> 0, loaded |-> 0, skipped |-> 0],
     outcome |-> "none", exc |-> "none",
     len0 |-> 0, tables0 |-> <<>>]
ResolveIdle == [filename |-> <<>>, table_name |-> NoTable, out |-> NoTable,
                applied |-> FALSE]
MetaReady == [exists |-> TRUE, schema |-> MetadataSchema, created |-> 0,
              issued |-> {}, exists0 |-> TRUE, ledger0 |-> <<>>,
              pc |-> [p \in Procs |-> "ready"],
              exc |-> [p \in Procs |-> "none"]]

HashIdle == [bytes |-> <<>>, n |-> ChunkSize, digest |-> 0, whole |-> 0,
             file_hash |-> 0, hex |-> <<>>, done |-> FALSE]

FileStates == {Absent, Unreadable} \cup {Present(c) : c \in Contents}

Init ==
    /\ files \in {fs \in [AllPaths -> FileStates] :
                     \A f \in AllPaths \ Paths : fs[f] = Absent}
    /\ tables = [t \in DestTables |-> <<>>]
    /\ ledger = <<>>
    /\ pc = [p \in Procs |-> "idle"]
    /\ cur = [p \in Procs |-> IdleCall]
    /\ dirload = DirIdle
    /\ resolved = ResolveIdle
    /\ hashing = HashIdle
    /\ meta = MetaReady

\* Calls that may still append a record.
InFlight ==
    {p \in Procs : pc[p] \in {"check", "load", "wait", "record_success", "record_failed"}}

\* ---------------------------------------------------------- load_csv_file
\* A variant that consults the ledger whatever skip_if_loaded says.
EntryTargetAlwaysCheck(skip_if_loaded) == "check"

\* if skip_if_loaded: ... else straight to the try block
EntryTarget(skip_if_loaded) == IF skip_if_loaded THEN "check" ELSE "load"

\* A variant without the existence check.
SourceMissingNever(f) == FALSE

\* if not csv_path.exists(): raise FileNotFoundError
SourceMissing(f) == ~f.exists

\* Entry: the existence check and the table-name resolution.
Call(p, csv_path, table_name, skip_if_loaded) ==
    /\ pc[p] = "idle"
    /\ Len(ledger) + Cardinality(InFlight) < MaxLedger
    /\ LET c0 == [IdleCall EXCEPT !.path = csv_path, !.table_arg = table_name,
                                  !.skip_if_loaded = skip_if_loaded,
                                  !.len0 = Len(ledger), !.tables0 = tables]
       IN  IF SourceMissing(files[csv_path])
           THEN /\ cur' = [cur EXCEPT ![p] =
                              [c0 EXCEPT !.result = "raised",
                                         !.exc = "FileNotFoundError"]]
                /\ pc' = [pc EXCEPT ![p] = "done"]
           ELSE /\ cur' = [cur EXCEPT ![p] =
                              [c0 EXCEPT !.table_name =
                                             ResolveTableName(csv_path, table_name)]]
                /\ pc' = [pc EXCEPT ![p] = EntryTarget(skip_if_loaded)]
    /\ UNCHANGED <<files, tables, ledger>>
    /\ UNCHANGED others

\* if skip_if_loaded: hash the file, ask the ledger, return None on a match.
CheckLoaded(p, backendFault) ==
    /\ pc[p] = "check"
    /\ LET c == cur[p]
           f == files[c.path]
       IN  IF OpenError(f) # "none"
           THEN \* open() in _get_file_hash raises, outside the try block
                /\ cur' = [cur EXCEPT ![p].result = "raised",
                                      ![p].exc = OpenError(f)]
                /\ pc' = [pc EXCEPT ![p] = "done"]
           ELSE LET h == GetFileHash(f.bytes)
                    q == BqQuery(IsAlreadyLoadedArgs, ledger, c.table_name, h,
                                 backendFault)
                    c1 == [c EXCEPT !.file_hash = h, !.bytes_seen = f.bytes,
                                    !.queried = TRUE, !.query_exc = q.exc,
                                    !.matched =
                                        CountSuccess(ledger, c.table_name, h) > 0]
                IN  IF IsAlreadyLoaded(ledger, c.table_name, h, backendFault)
                    THEN /\ cur' = [cur EXCEPT ![p] = [c1 EXCEPT !.result = "skipped"]]
                         /\ pc' = [pc EXCEPT ![p] = "done"]
                    ELSE /\ cur' = [cur EXCEPT ![p] = c1]
                         /\ pc' = [pc EXCEPT ![p] = "load"]
    /\ UNCHANGED <<files, tables, ledger>>
    /\ UNCHANGED others

\* A variant that loads with WRITE_APPEND: the old rows stay.
TableWriteAppend(old, bytes) == old \o bytes

\* write_disposition="WRITE_TRUNCATE": the file's rows replace the table's.
TableWrite(old, bytes) == bytes

\* bq_helper.load_csv(..., write_disposition="WRITE_TRUNCATE"), up to the
\* upload: the dataset check asks the backend (backendFault: that request
\* fails), then open() may raise on a vanished or unreadable file, then
\* load_table_from_file reads the file's bytes and sends them; the call now
\* waits in job.result().
BulkLoad(p, backendFault) ==
    /\ pc[p] = "load"
    /\ LET c == cur[p]
           f == files[c.path]
       IN  IF backendFault \/ OpenError(f) # "none"
           THEN LET e == IF backendFault THEN "BulkLoadError" ELSE OpenError(f)
                IN  /\ cur' = [cur EXCEPT ![p].bulk = "raised",
                                          ![p].bulk_exc = e, ![p].exc = e]
                    /\ pc' = [pc EXCEPT ![p] = "record_failed"]
           ELSE /\ cur' = [cur EXCEPT ![p].loaded = f.bytes]
                /\ pc' = [pc EXCEPT ![p] = "wait"]
    /\ UNCHANGED <<files, tables, ledger>>
    /\ UNCHANGED others

\* job.result(): the load job completes, replacing the table's rows by the
\* bytes that were uploaded, and reports output_rows; or it fails and
\* job.result() raises, the table staying as it is.
JobResult(p, backendFault, output_rows) ==
    /\ pc[p] = "wait"
    /\ LET c == cur[p]
       IN  IF backendFault
           THEN /\ cur' = [cur EXCEPT ![p].bulk = "raised",
                                      ![p].bulk_exc = "BulkLoadError",
                                      ![p].exc = "BulkLoadError"]
                /\ pc' = [pc EXCEPT ![p] = "record_failed"]
                /\ UNCHANGED tables
           ELSE /\ tables' = [tables EXCEPT ![c.table_name] =
                                             TableWrite(tables[c.table_name], c.loaded)]
                /\ cur' = [cur EXCEPT ![p].bulk = "ok",
                                      ![p].output_rows = output_rows]
                /\ pc' = [pc EXCEPT ![p] = "record_success"]
    /\ UNCHANGED <<files, ledger>>
    /\ UNCHANGED others

\* job.output_rows or 0
RowsOrZero(output_rows) ==
    IF output_rows = NoRows \/ output_rows = 0 THEN 0 ELSE output_rows

\* A variant that records the table inferred from the file name even when the
\* caller gave an explicit table.
SuccessRecordInferredTable(c) ==
    LoadRecord(ResolveTableName(c.path, NoTable), c.path, RowsOrZero(c.output_rows),
               IF c.skip_if_loaded THEN c.file_hash ELSE NoHash, "SUCCESS")

SuccessRecord(c) ==
    LoadRecord(c.table_name, c.path, RowsOrZero(c.output_rows),
               IF c.skip_if_loaded THEN c.file_hash ELSE NoHash, "SUCCESS")

\* A variant that records the job's row count on failure too.
FailedRecordKeepsRows(c) ==
    LoadRecord(c.table_name, c.path, RowsOrZero(c.output_rows), NoHash, "FAILED")

FailedRecord(c) ==
    LoadRecord(c.table_name, c.path, 0, NoHash, "FAILED")

\* A variant that logs a failed SUCCESS write and still returns the job.
RecordSuccessStepIgnoresFault(c, led, writeFault) ==
    IF writeFault
    THEN [ledger |-> led, pc |-> "done",
          call |-> [c EXCEPT !.rec_success = "raised", !.result = "job"]]
    ELSE [ledger |-> LedgerAppend(led, SuccessRecord(c)), pc |-> "done",
          call |-> [c EXCEPT !.rec_success = "ok", !.result = "job"]]

\* try: _record_load_metadata(..., status="SUCCESS"); return job.  A write
\* that raises is caught by the except clause of the same try block.
RecordSuccessStep(c, led, writeFault) ==
    IF writeFault
    THEN [ledger |-> led, pc |-> "record_failed",
          call |-> [c EXCEPT !.rec_success = "raised", !.exc = "LedgerWriteError"]]
    ELSE [ledger |-> LedgerAppend(led, SuccessRecord(c)), pc |-> "done",
          call |-> [c EXCEPT !.rec_success = "ok", !.result = "job"]]

\* A variant whose handler ends without the bare raise: the call returns None.
RecordFailedStepSwallows(c, led, writeFault) ==
    IF writeFault
    THEN [ledger |-> led, pc |-> "done",
          call |-> [c EXCEPT !.rec_failed = "raised", !.result = "raised",
                             !.exc = "LedgerWriteError"]]
    ELSE [ledger |-> LedgerAppend(led, FailedRecord(c)), pc |-> "done",
          call |-> [c EXCEPT !.rec_failed = "ok", !.result = "skipped",
                             !.exc = "none"]]

\* except Exception as e: _record_load_metadata(..., status="FAILED"); raise.
\* If the handler's own write raises, that exception propagates instead of e.
RecordFailedStep(c, led, writeFault) ==
    IF writeFault
    THEN [ledger |-> led, pc |-> "done",
          call |-> [c EXCEPT !.rec_failed = "raised", !.result = "raised",
                             !.exc = "LedgerWriteError"]]
    ELSE [ledger |-> LedgerAppend(led, FailedRecord(c)), pc |-> "done",
          call |-> [c EXCEPT !.rec_failed = "ok", !.result = "raised"]]

\* load_dataframe sets no create disposition: the job that appends to an
\* absent table makes it, its columns those of the frame (the seven of the
\* record).  A job that fails makes nothing.
MetaAfterWrite(m, writeFault) ==
    IF writeFault \/ m.exists THEN m
    ELSE [m EXCEPT !.exists = TRUE, !.schema = MetadataSchema]

RecordSuccess(p, writeFault) ==
    /\ pc[p] = "record_success"
    /\ LET r == RecordSuccessStep(cur[p], ledger, writeFault)
       IN  /\ ledger' = r.ledger
           /\ cur' = [cur EXCEPT ![p] = r.call]
           /\ pc' = [pc EXCEPT ![p] = r.pc]
    /\ meta' = MetaAfterWrite(meta, writeFault)
    /\ UNCHANGED <<files, tables, dirload, resolved, hashing>>

RecordFailed(p, writeFault) ==
    /\ pc[p] = "record_failed"
    /\ LET r == RecordFailedStep(cur[p], ledger, writeFault)
       IN  /\ ledger' = r.ledger
           /\ cur' = [cur EXCEPT ![p] = r.call]
           /\ pc' = [pc EXCEPT ![p] = r.pc]
    /\ meta' = MetaAfterWrite(meta, writeFault)
    /\ UNCHANGED <<files, tables, dirload, resolved, hashing>>

\* The call has returned or raised to its caller; the process is free again.
Return(p) ==
    /\ pc[p] = "done"
    /\ pc' = [pc EXCEPT ![p] = "idle"]
    /\ cur' = [cur EXCEPT ![p] = IdleCall]
    /\ UNCHANGED <<files, tables, ledger>>
    /\ UNCHANGED others

\* ------------------------------------------------------------ environment
\* Someone rewrites or deletes a source file.
WriteFile(path, bytes) ==
    /\ files[path] # Present(bytes)
    /\ files' = [files EXCEPT ![path] = Present(bytes)]
    /\ UNCHANGED <<tables, ledger, pc, cur>>
    /\ UNCHANGED others

RemoveFile(path) ==
    /\ files[path].exists
    /\ files' = [files EXCEPT ![path] = Absent]
    /\ UNCHANGED <<tables, ledger, pc, cur>>
    /\ UNCHANGED others

\* The path becomes a directory, or loses its read permission.
BlockFile(path) ==
    /\ files[path] # Unreadable
    /\ files' = [files EXCEPT ![path] = Unreadable]
    /\ UNCHANGED <<tables, ledger, pc, cur>>
    /\ UNCHANGED others

\* ------------------------------------------------------------ delete_table
\* The ledger table's id.
MetadataTable == <<"_load_metadata">>

\* BigQueryHelper.delete_table(dataset_id, table_id): client.delete_table
\* drops the table with its rows.  A destination table the model holds as
\* <<>> is absent or empty alike, and dropping it changes nothing (not_found_ok).
\* No loader operation calls it: it is the warehouse's administrator's.
DeleteTable(table_id) ==
    /\ IF table_id = MetadataTable
       THEN /\ meta.exists
            /\ ledger' = <<>>
            /\ meta' = [meta EXCEPT !.exists = FALSE, !.schema = <<>>]
            /\ UNCHANGED tables
       ELSE /\ tables[table_id] # <<>>
            /\ tables' = [tables EXCEPT ![table_id] = <<>>]
            /\ UNCHANGED <<ledger, meta>>
    /\ cur' = [p \in Procs |->
                  IF pc[p] = "idle" THEN cur[p]
                  ELSE [cur[p] EXCEPT !.table_deleted = TRUE]]
    /\ UNCHANGED <<files, pc, dirload, resolved, hashing>>

\* ---------------------------------------------------------- specification
Step(p) ==
    \/ \E f \in Paths, t \in TableArgs, s \in BOOLEAN : Call(p, f, t, s)
    \/ \E fault \in BOOLEAN : CheckLoaded(p, fault)
    \/ \E fault \in BOOLEAN : BulkLoad(p, fault)
    \/ \E fault \in BOOLEAN, n \in OutputRows : JobResult(p, fault, n)
    \/ \E fault \in BOOLEAN : RecordSuccess(p, fault)
    \/ \E fault \in BOOLEAN : RecordFailed(p, fault)
    \/ Return(p)

Env ==
    \/ \E f \in Paths, c \in Contents : WriteFile(f, c)
    \/ \E f \in Paths : RemoveFile(f)
    \/ \E f \in Paths : BlockFile(f)

Admin == \E t \in DestTables \cup {MetadataTable} : DeleteTable(t)

Next ==
    \/ \E p \in SeqProcs : Step(p)
    \/ Env
    \/ Admin

Spec == Init /\ [][Next]_vars

TypeOK ==
    /\ pc \in [Procs -> {"idle", "check", "load", "wait", "record_success",
                         "record_failed", "done"}]
    /\ Len(ledger) <= MaxLedger
    /\ \A i \in DOMAIN ledger : ledger[i].status \in {"SUCCESS", "FAILED"}

\* ------------------------------------------------- table-name resolution
\* File names as the resolution sees them: a stem and its extensions.
Stems == {"olist_customers_dataset", "olist_orders_dataset", "unknown_file", "notes"}
Extensions == {".csv", ".txt", ".gz"}

RECURSIVE ExtSeqs(_)
ExtSeqs(n) ==
    IF n = 0 THEN {<<>>}
    ELSE ExtSeqs(n - 1) \cup
         {Append(q, x) : q \in {r \in ExtSeqs(n - 1) : Len(r) = n - 1}, x \in Extensions}

FileNames == {<<st>> \o q : st \in Stems, q \in ExtSeqs(MaxExt)}

InitResolve ==
    /\ files = [f \in AllPaths |-> Absent]
    /\ tables = [t \in DestTables |-> <<>>]
    /\ ledger = <<>>
    /\ pc = [p \in Procs |-> "idle"]
    /\ cur = [p \in Procs |-> IdleCall]
    /\ dirload = DirIdle
    /\ meta = MetaReady
    /\ hashing = HashIdle
    /\ resolved \in {[ResolveIdle EXCEPT !.filename = f, !.table_name = t] :
                        f \in FileNames, t \in TableArgs}

\* filename = csv_path.name; if table_name is None: table_name = ...
Resolve ==
    /\ ~resolved.applied
    /\ resolved' = [resolved EXCEPT
                       !.out = ResolveTableName(resolved.filename, resolved.table_name),
                       !.applied = TRUE]
    /\ UNCHANGED <<files, tables, ledger, pc, cur, dirload, meta, hashing>>

NextResolve == Resolve

SpecResolve == InitResolve /\ [][NextResolve]_vars

\* ----------------------------------------------------------- load_directory
\* dirload holds the directory's existence, the call's locals (skip_if_loaded,
\* csv_files, the loop index next, results) and, as a record of what
\* happened, attempts: for each load_csv_file call the loop made, the file
\* and how the call ended.
InitDir ==
    /\ \E d \in BOOLEAN :
          /\ dirload = [DirIdle EXCEPT !.dir_exists = d]
          /\ files \in {fs \in [AllPaths -> FileStates] : d \/ \A f \in AllPaths : fs[f] = Absent}
    /\ tables = [t \in DestTables |-> <<>>]
    /\ ledger = <<>>
    /\ pc = [p \in Procs |-> "idle"]
    /\ cur = [p \in Procs |-> IdleCall]
    /\ resolved = ResolveIdle
    /\ hashing = HashIdle
    /\ meta = MetaReady

\* A variant that lists every entry of the directory.
GlobAll(fs) == {f \in DirPaths : fs[f].exists}

\* directory.glob("*.csv"): the entries whose name ends in ".csv", in the
\* order the file system lists them.
GlobCsv(fs) == {f \in DirPaths : fs[f].exists /\ Last(f) = ".csv"}

OrderingsOf(S) ==
    {q \in [1..Cardinality(S) -> S] : \A i, j \in DOMAIN q : i # j => q[i] # q[j]}

\* A variant without the existence check on the directory.
DirMissingNever(d) == FALSE

\* if not directory.exists(): raise FileNotFoundError
DirMissing(d) == ~d.dir_exists

\* Entry of load_directory up to the loop.
DirStart(p, skip_if_loaded) ==
    /\ dirload.pc = "idle"
    /\ pc[p] = "idle"
    /\ LET d0 == [dirload EXCEPT !.skip_if_loaded = skip_if_loaded,
                                 !.len0 = Len(ledger), !.tables0 = tables]
       IN  IF DirMissing(dirload)
           THEN dirload' = [d0 EXCEPT !.pc = "done", !.outcome = "raised",
                                      !.exc = "FileNotFoundError"]
           ELSE IF GlobCsv(files) = {}
                THEN dirload' = [d0 EXCEPT !.pc = "done", !.outcome = "returned"]
                ELSE \E order \in OrderingsOf(GlobCsv(files)) :
                        dirload' = [d0 EXCEPT !.pc = "loop", !.csv_files = order]
    /\ UNCHANGED <<files, tables, ledger, pc, cur, resolved, meta, hashing>>

\* job = self.load_csv_file(csv_file, skip_if_loaded=skip_if_loaded)
DirCallFile(p) ==
    /\ dirload.pc = "loop"
    /\ dirload.next <= Len(dirload.csv_files)
    /\ Call(p, dirload.csv_files[dirload.next], NoTable, dirload.skip_if_loaded)

\* results[key] = ...: a dict keeps its keys in the order of their first
\* insertion; keys is that order.
DictKeys(keys, k) ==
    IF \E i \in DOMAIN keys : keys[i] = k THEN keys ELSE Append(keys, k)

\* A variant whose loop lets a file's exception escape load_directory.
CollectStepPropagates(d, c) ==
    LET a == [name |-> c.path, result |-> c.result, exc |-> c.exc]
    IN  IF c.result = "raised"
        THEN [d EXCEPT !.attempts = Append(@, a), !.pc = "done",
                       !.outcome = "raised", !.exc = c.exc]
        ELSE [d EXCEPT !.attempts = Append(@, a), !.next = @ + 1,
                       !.keys = DictKeys(@, c.path),
                       !.results = (c.path :> "job") @@ @]

\* A variant whose loop does not move on to the next file.
CollectStepNoAdvance(d, c) ==
    LET a == [name |-> c.path, result |-> c.result, exc |-> c.exc]
    IN  [d EXCEPT !.attempts = Append(@, a),
                  !.keys = DictKeys(@, c.path),
                  !.results = (c.path :> (IF c.result = "job" THEN "job" ELSE "None")) @@ @]

\* results[csv_file.name] = job; except Exception: results[csv_file.name] = None
CollectStep(d, c) ==
    LET a == [name |-> c.path, result |-> c.result, exc |-> c.exc]
    IN  [d EXCEPT !.attempts = Append(@, a), !.next = @ + 1,
                  !.keys = DictKeys(@, c.path),
                  !.results = (c.path :> (IF c.result = "job" THEN "job" ELSE "None")) @@ @]

\* The call returned or raised into the loop body; the loop moves on.
DirCollect(p) ==
    /\ dirload.pc = "loop"
    /\ pc[p] = "done"
    /\ dirload' = CollectStep(dirload, cur[p])
    /\ pc' = [pc EXCEPT ![p] = "idle"]
    /\ cur' = [cur EXCEPT ![p] = IdleCall]
    /\ UNCHANGED <<files, tables, ledger, resolved, meta, hashing>>

\* loaded_count = sum(1 for job in results.values() if job is not None)
\* skipped_count = sum(1 for job in results.values() if job is None)
DirSummary(d) ==
    [total_files |-> Len(d.csv_files),
     loaded |-> Cardinality({k \in DOMAIN d.results : d.results[k] # "None"}),
     skipped |-> Cardinality({k \in DOMAIN d.results : d.results[k] = "None"})]

\* The loop is over: log the summary, return results.
DirFinish(p) ==
    /\ dirload.pc = "loop"
    /\ dirload.next > Len(dirload.csv_files)
    /\ pc[p] = "idle"
    /\ dirload' = [dirload EXCEPT !.pc = "done", !.outcome = "returned",
                                  !.summary = DirSummary(dirload)]
    /\ UNCHANGED <<files, tables, ledger, pc, cur, resolved, meta, hashing>>

DirStep(p) ==
    \/ \E s \in BOOLEAN : DirStart(p, s)
    \/ DirCallFile(p)
    \/ \E fault \in BOOLEAN : CheckLoaded(p, fault)
    \/ \E fault \in BOOLEAN : BulkLoad(p, fault)
    \/ \E fault \in BOOLEAN, n \in OutputRows : JobResult(p, fault, n)
    \/ \E fault \in BOOLEAN : RecordSuccess(p, fault)
    \/ \E fault \in BOOLEAN : RecordFailed(p, fault)
    \/ DirCollect(p)
    \/ DirFinish(p)

\* An entry of the directory is deleted while the loop runs.
DirEnv == \E f \in DirPaths : RemoveFile(f)

NextDir ==
    \/ \E p \in SeqProcs : DirStep(p)
    \/ DirEnv

SpecDir == InitDir /\ [][NextDir]_vars

\* The loop runs in one thread that is never cancelled: it keeps taking
\* steps while it has one to take.
FairSpecDir == SpecDir /\ WF_vars(\E p \in SeqProcs : DirStep(p))

\* --------------------------------------------------- _ensure_metadata_table
\* meta holds the ledger table as the warehouse has it (exists, schema), each
\* process's position in _ensure_metadata_table (meta.pc) and, as a record of
\* what happened, created (how many create requests made a table), issued
\* (who sent a create request), exc (the exception that ended p's call, if
\* one did), exists0 and ledger0 (the table and its records when the
\* behaviour began).
LedgerRecords ==
    {LoadRecord(<<"customers_raw">>, CustomersCsv, n, h, st) :
        n \in 0..MaxRows, h \in {NoHash, GetFileHash(<<1, 2>>)},
        st \in {"SUCCESS", "FAILED"}}

RECURSIVE SeqsUpTo(_, _)
SeqsUpTo(S, n) ==
    IF n = 0 THEN {<<>>}
    ELSE SeqsUpTo(S, n - 1) \cup
         {Append(q, x) : q \in {r \in SeqsUpTo(S, n - 1) : Len(r) = n - 1}, x \in S}

InitEnsure ==
    /\ files = [f \in AllPaths |-> Absent]
    /\ tables = [t \in DestTables |-> <<>>]
    /\ pc = [p \in Procs |-> "idle"]
    /\ cur = [p \in Procs |-> IdleCall]
    /\ dirload = DirIdle
    /\ resolved = ResolveIdle
    /\ hashing = HashIdle
    /\ \E e \in BOOLEAN :
          /\ ledger \in (IF e THEN SeqsUpTo(LedgerRecords, MaxLedger) ELSE {<<>>})
          /\ meta = [MetaReady EXCEPT !.exists = e, !.exists0 = e,
                                      !.schema = IF e THEN MetadataSchema ELSE <<>>,
                                      !.ledger0 = ledger,
                                      !.pc = [p \in Procs |-> "start"]]

\* BigQueryHelper.table_exists: client.get_table answers, or raises NotFound
\* for an absent table (caught: False); any other error of the request
\* (backendFault) is not caught.
HelperTableExists(m, backendFault) ==
    IF backendFault THEN [raised |-> TRUE, exc |-> "BackendError", value |-> FALSE]
    ELSE [raised |-> FALSE, exc |-> "none", value |-> m.exists]

\* if self.bq_helper.table_exists(...): return.  An error of table_exists
\* passes through _ensure_metadata_table and the constructor raises.
EnsureObserve(p, backendFault) ==
    /\ meta.pc[p] = "start"
    /\ LET r == HelperTableExists(meta, backendFault)
       IN  meta' = [meta EXCEPT !.pc[p] = IF r.raised THEN "raised"
                                         ELSE IF r.value THEN "ready" ELSE "create",
                                !.exc[p] = r.exc]
    /\ UNCHANGED <<files, tables, ledger, pc, cur, dirload, resolved, hashing>>

\* client.create_table(table, exists_ok=exists_ok): makes the table if it is
\* absent; if it is there, returns it as it is when exists_ok and raises
\* Conflict otherwise.  A request the backend fails (backendFault) raises and
\* makes nothing.
ClientCreateTable(m, schema, exists_ok, backendFault) ==
    IF backendFault
    THEN [exists |-> m.exists, schema |-> m.schema, made |-> 0,
          exc |-> "BackendError"]
    ELSE IF ~m.exists
    THEN [exists |-> TRUE, schema |-> schema, made |-> 1, exc |-> "none"]
    ELSE [exists |-> TRUE, schema |-> m.schema, made |-> 0,
          exc |-> IF exists_ok THEN "none" ELSE "Conflict"]

\* A variant that passes exists_ok=False.
HelperCreateTableStrict(m, schema, backendFault) ==
    ClientCreateTable(m, schema, FALSE, backendFault)

\* BigQueryHelper.create_table(dataset_id, table_id, schema): exists_ok=True;
\* an exception of the client is logged and raised again.
HelperCreateTable(m, schema, backendFault) ==
    ClientCreateTable(m, schema, TRUE, backendFault)

\* self.bq_helper.create_table(..., schema=schema)
EnsureCreate(p, backendFault) ==
    /\ meta.pc[p] = "create"
    /\ LET r == HelperCreateTable(meta, MetadataSchema, backendFault)
       IN  meta' = [meta EXCEPT !.exists = r.exists, !.schema = r.schema,
                                !.created = @ + r.made,
                                !.issued = @ \cup {p},
                                !.pc[p] = IF r.exc = "none" THEN "ready" ELSE "raised",
                                !.exc[p] = r.exc]
    /\ UNCHANGED <<files, tables, ledger, pc, cur, dirload, resolved, hashing>>

\* Another BigQueryLoader is constructed in process p.
EnsureAgain(p) ==
    /\ meta.pc[p] = "ready"
    /\ meta' = [meta EXCEPT !.pc[p] = "start"]
    /\ UNCHANGED <<files, tables, ledger, pc, cur, dirload, resolved, hashing>>

NextEnsure ==
    \E p \in Procs :
        \/ \E fault \in BOOLEAN : EnsureObserve(p, fault)
        \/ \E fault \in BOOLEAN : EnsureCreate(p, fault)
        \/ EnsureAgain(p)

SpecEnsure == InitEnsure /\ [][NextEnsure]_vars

\* ----------------------------------------------------------- _get_file_hash
ByteVals == {1, 2}

RECURSIVE ByteSeqs(_)
ByteSeqs(n) ==
    IF n = 0 THEN {<<>>}
    ELSE ByteSeqs(n - 1) \cup
         {Append(q, x) : q \in {r \in ByteSeqs(n - 1) : Len(r) = n - 1}, x \in ByteVals}

ReadSizes == (1..MaxChunk) \cup {ChunkSize}

InitHash ==
    /\ files = [f \in AllPaths |-> Absent]
    /\ tables = [t \in DestTables |-> <<>>]
    /\ ledger = <<>>
    /\ pc = [p \in Procs |-> "idle"]
    /\ cur = [p \in Procs |-> IdleCall]
    /\ dirload = DirIdle
    /\ resolved = ResolveIdle
    /\ meta = MetaReady
    /\ hashing \in {[HashIdle EXCEPT !.bytes = b, !.n = n] :
                       b \in ByteSeqs(MaxBytes), n \in ReadSizes}

\* The file's bytes go through the read loop n at a time (digest), through
\* the loop as the code runs it (file_hash), and through one update (whole);
\* hex is what _get_file_hash returns.
Hash ==
    /\ ~hashing.done
    /\ hashing' = [hashing EXCEPT
                      !.digest = HashChunksOf(hashing.n, 0, hashing.bytes),
                      !.file_hash = GetFileHash(hashing.bytes),
                      !.whole = Md5Update(0, hashing.bytes),
                      !.hex = HexDigest(HashChunksOf(hashing.n, 0, hashing.bytes)),
                      !.done = TRUE]
    /\ UNCHANGED <<files, tables, ledger, pc, cur, dirload, resolved, meta>>

NextHash == Hash

SpecHash == InitHash /\ [][NextHash]_vars

\* ------------------------------------------------------- two loaders racing
\* Each process makes one load_csv_file call; their steps interleave freely.
RaceStep(p) ==
    \/ \E f \in Paths, t \in TableArgs, s \in BOOLEAN : Call(p, f, t, s)
    \/ \E fault \in BOOLEAN : CheckLoaded(p, fault)
    \/ \E fault \in BOOLEAN : BulkLoad(p, fault)
    \/ \E fault \in BOOLEAN, n \in OutputRows : JobResult(p, fault, n)
    \/ \E fault \in BOOLEAN : RecordSuccess(p, fault)
    \/ \E fault \in BOOLEAN : RecordFailed(p, fault)

NextRace ==
    \/ \E p \in Procs : RaceStep(p)
    \/ Env

SpecRace == Init /\ [][NextRace]_vars

\* ------------------------------------------------------ properties: helpers

\* The number of records the ledger gained since p's call began, and the
\* ledger as it was then (under Spec one process runs, so these are the
\* records p's call wrote and the ledger its idempotency check saw).
Grown(p) == Len(ledger) - cur[p].len0
LedgerBefore(p) == SubSeq(ledger, 1, cur[p].len0)

\* Nobody dropped a table with delete_table since p's call began: the ledger
\* and the destination tables changed only by what loader calls did.
Undisturbed(p) == ~cur[p].table_deleted

\* The call passed the existence check and resolved its table.
Entered(c) == c.table_name # NoTable

NoWriteRaised(c) == c.rec_success # "raised" /\ c.rec_failed # "raised"

\* No ledger or backend fault occurred in the call.
NoFault(c) ==
    /\ c.query_exc # "BackendError"
    /\ c.bulk # "raised"
    /\ NoWriteRaised(c)

\* The table the caller asked for: the override if given, else the mapping.
AskedTable(c) ==
    IF c.table_arg # NoTable THEN c.table_arg ELSE ResolveTableName(c.path, NoTable)

\* ---------------------------------------------------------------------- C1
\* C1 (Idempotence): a load_csv_file(f, skip_if_loaded=True) call that follows
\* one successful skip_if_loaded=True load of the same bytes into the same
\* table (the ledger holds exactly one SUCCESS row for (table, hash(f)) when
\* the call begins), and that meets no ledger or backend fault, returns
\* "skipped" without a bulk load and leaves exactly one such SUCCESS row (no
\* table being dropped meanwhile).
C1_Idempotence ==
    \A p \in Procs :
        LET c == cur[p]
            h == GetFileHash(c.bytes_seen)
        IN  ( /\ pc[p] = "done"
              /\ Undisturbed(p)
              /\ c.skip_if_loaded
              /\ c.queried
              /\ NoFault(c)
              /\ CountSuccess(LedgerBefore(p), c.table_name, h) = 1 )
            => /\ c.result = "skipped"
               /\ c.bulk = "none"
               /\ CountSuccess(ledger, c.table_name, h) = 1

\* ---------------------------------------------------------------------- C2
\* C2 (No false-positive skip): a call returns "skipped" only if
\* skip_if_loaded is true and the ledger, when it was asked, held a SUCCESS
\* record for the resolved table whose file_hash is the fingerprint of the
\* bytes the file had then (and holds it still, unless the ledger table was
\* dropped since); a file whose content is not the content of a recorded
\* successful load is never skipped.
C2_NoFalsePositiveSkip ==
    \A p \in Procs :
        LET c == cur[p]
        IN  c.result = "skipped"
            => /\ c.skip_if_loaded
               /\ c.queried
               /\ c.matched
               /\ Undisturbed(p) => \E i \in DOMAIN ledger :
                     /\ ledger[i].status = "SUCCESS"
                     /\ ledger[i].table_name = AskedTable(c)
                     /\ ledger[i].file_hash = GetFileHash(c.bytes_seen)

\* A skip_if_loaded=True call on a file whose bytes changed since its last
\* successful load into the table was not skipped: it loaded the file again.
C2_Witness ==
    \E p \in Procs :
        LET c == cur[p]
        IN  /\ pc[p] = "done"
            /\ Undisturbed(p)
            /\ c.skip_if_loaded
            /\ c.queried
            /\ ~c.matched
            /\ c.result = "job"
            /\ \E i \in 1..c.len0 :
                  /\ ledger[i].status = "SUCCESS"
                  /\ ledger[i].table_name = c.table_name
                  /\ ledger[i].source_file = c.path
                  /\ ledger[i].file_hash # NoHash
                  /\ ledger[i].file_hash # GetFileHash(c.bytes_seen)

\* ---------------------------------------------------------------------- C3
\* C3 (Skip leaves state unchanged): whenever the idempotency check of a call
\* answers "already loaded" (the call returns "skipped"), the call has ended
\* without a bulk load and without a new ledger record: the destination
\* tables and the ledger are as they were when it began (no table being
\* dropped meanwhile).  No reachable call is skipped (see C1), so the
\* statement holds of the reachable states without its case ever arising.
C3_SkipLeavesStateUnchanged ==
    \A p \in Procs :
        LET c == cur[p]
        IN  (c.result = "skipped" /\ Undisturbed(p))
            => /\ pc[p] = "done"
               /\ c.bulk = "none"
               /\ c.rec_success = "none" /\ c.rec_failed = "none"
               /\ Grown(p) = 0
               /\ tables = c.tables0

\* ---------------------------------------------------------------------- C4
\* C4 (Forced reload bypass): a load_csv_file(f, skip_if_loaded=False) call
\* on an existing file never consults the ledger and computes no hash, always
\* issues the bulk load, and the ledger grows by exactly one record unless a
\* ledger write raises; when the bulk load and the write succeed that record
\* is a SUCCESS record and the call returns the job.  This holds whether or
\* not the same unchanged file was loaded successfully before.  (What is said
\* of the ledger is said of calls during which no table was dropped.)
C4_ForcedReloadBypass ==
    \A p \in Procs :
        LET c == cur[p]
        IN  (~c.skip_if_loaded /\ Entered(c))
            => /\ ~c.queried
               /\ c.file_hash = NoHash
               /\ pc[p] # "check"
               /\ pc[p] = "done"
                  => /\ c.bulk # "none"
                     /\ (NoWriteRaised(c) /\ Undisturbed(p)) => Grown(p) = 1
                     /\ (c.bulk = "ok" /\ c.rec_success = "ok")
                        => /\ c.result = "job"
                           /\ Undisturbed(p)
                              => /\ Last(ledger).status = "SUCCESS"
                                 /\ Last(ledger).table_name = c.table_name

\* A forced call made after a successful load of the same file into the same
\* table, the file unchanged (the table held and holds the same bytes),
\* loaded again and added one record.
C4_Witness ==
    \E p \in Procs :
        LET c == cur[p]
        IN  /\ pc[p] = "done"
            /\ Undisturbed(p)
            /\ ~c.skip_if_loaded
            /\ c.result = "job"
            /\ Grown(p) = 1
            /\ c.tables0[c.table_name] = tables[c.table_name]
            /\ tables[c.table_name] = files[c.path].bytes
            /\ \E i \in 1..c.len0 :
                  /\ ledger[i].status = "SUCCESS"
                  /\ ledger[i].table_name = c.table_name
                  /\ ledger[i].source_file = c.path

\* ---------------------------------------------------------------------- C5
\* C5 (Success record content): when the bulk load succeeds and the ledger
\* write succeeds, exactly one record is appended; it has status SUCCESS, the
\* table asked for (the override if given), the source path, the row count
\* the job reported (0 for None), and the fingerprint of the hashed bytes when
\* a hash was computed (none otherwise); the call returns the job.  (The
\* record is the ledger's last until the ledger table is dropped.)
C5_SuccessRecordContent ==
    \A p \in Procs :
        LET c == cur[p]
        IN  (pc[p] = "done" /\ c.bulk = "ok" /\ c.rec_success = "ok"
                 /\ Undisturbed(p))
            => /\ Grown(p) = 1
               /\ Last(ledger) =
                     [table_name |-> AskedTable(c),
                      source_file |-> c.path,
                      rows_loaded |-> IF c.output_rows = NoRows THEN 0
                                      ELSE c.output_rows,
                      file_hash |-> IF c.skip_if_loaded
                                    THEN GetFileHash(c.bytes_seen) ELSE NoHash,
                      status |-> "SUCCESS"]
               /\ c.result = "job"
               /\ c.exc = "none"

\* A load with an explicit table, a computed hash and a positive row count
\* succeeded and was recorded.
C5_Witness ==
    \E p \in Procs :
        LET c == cur[p]
        IN  /\ pc[p] = "done"
            /\ Undisturbed(p)
            /\ c.bulk = "ok"
            /\ c.rec_success = "ok"
            /\ c.table_arg # NoTable
            /\ c.skip_if_loaded
            /\ c.output_rows > 0
            /\ Last(ledger).rows_loaded = c.output_rows

\* ---------------------------------------------------------------------- C6
\* C6 (Failure is recorded): once the bulk load of a call has raised, the
\* call appends no SUCCESS record, and if its FAILED write succeeds the ledger
\* has gained exactly one record: FAILED, zero rows, for that table and
\* source file (no table being dropped meanwhile).  Every FAILED record has
\* rows_loaded = 0 and every record has rows_loaded >= 0.
C6_FailureRecorded ==
    /\ \A p \in Procs :
          LET c == cur[p]
          IN  c.bulk = "raised"
              => /\ Undisturbed(p)
                    => \A i \in (c.len0 + 1)..Len(ledger) : ledger[i].status # "SUCCESS"
                 /\ c.rec_success = "none"
                 /\ (pc[p] = "done" /\ c.rec_failed = "ok" /\ Undisturbed(p))
                    => /\ Grown(p) = 1
                       /\ Last(ledger).status = "FAILED"
                       /\ Last(ledger).rows_loaded = 0
                       /\ Last(ledger).table_name = AskedTable(c)
                       /\ Last(ledger).source_file = c.path
    /\ \A i \in DOMAIN ledger :
          /\ ledger[i].rows_loaded >= 0
          /\ ledger[i].status = "FAILED" => ledger[i].rows_loaded = 0

\* A bulk load raised and its FAILED record was written.
C6_Witness ==
    \E p \in Procs :
        LET c == cur[p]
        IN  /\ pc[p] = "done"
            /\ Undisturbed(p)
            /\ c.bulk = "raised"
            /\ c.rec_failed = "ok"
            /\ Last(ledger).status = "FAILED"

\* ---------------------------------------------------------------------- C7
\* C7 (Load failures are never swallowed): a call whose bulk load raised ends
\* by raising, never by returning a job or "skipped"; when its FAILED record
\* was written the exception raised is the bulk load's own.
C7_LoadFailureNeverSwallowed ==
    \A p \in Procs :
        LET c == cur[p]
        IN  c.bulk = "raised"
            => /\ c.result \in {"none", "raised"}
               /\ pc[p] = "done" => c.result = "raised"
               /\ (pc[p] = "done" /\ c.rec_failed = "ok")
                  => (c.exc = c.bulk_exc /\ c.exc # "none")

\* The backend failed a bulk load, the FAILED record was written and the call
\* raised the backend's error.
C7_Witness ==
    \E p \in Procs :
        LET c == cur[p]
        IN  /\ pc[p] = "done"
            /\ c.bulk = "raised"
            /\ c.rec_failed = "ok"
            /\ c.result = "raised"
            /\ c.exc = "BulkLoadError"

\* ---------------------------------------------------------------------- C8
\* C8 (Ledger degradation): when the idempotency-check query fails, the check
\* answers "not loaded" without raising: the call is not skipped, raises no
\* query error, goes on to the bulk load and records its outcome (one record
\* unless a ledger write raises or the ledger table is dropped meanwhile), as
\* a call with no prior load does.
C8_LedgerDegradation ==
    \A p \in Procs :
        LET c == cur[p]
        IN  c.query_exc # "none"
            => /\ c.result # "skipped"
               /\ c.exc \notin {"TypeError", "BackendError"}
               /\ pc[p] \in {"load", "wait", "record_success", "record_failed", "done"}
               /\ pc[p] = "done"
                  => /\ c.bulk # "none"
                     /\ (NoWriteRaised(c) /\ Undisturbed(p)) => Grown(p) = 1

\* The query failed although the ledger held a matching SUCCESS record, and
\* the call loaded the file and returned the job.
C8_Witness ==
    \E p \in Procs :
        LET c == cur[p]
        IN  /\ pc[p] = "done"
            /\ Undisturbed(p)
            /\ c.query_exc # "none"
            /\ c.matched
            /\ c.bulk = "ok"
            /\ c.result = "job"
            /\ Grown(p) = 1

\* ---------------------------------------------------------------------- C9
\* C9 (Ledger write failures always propagate): a call in which a ledger
\* append raised, for the SUCCESS record or for the FAILED record, never
\* returns normally: it ends by raising the ledger write error.
C9_LedgerWriteFailurePropagates ==
    \A p \in Procs :
        LET c == cur[p]
        IN  ~NoWriteRaised(c)
            => /\ c.result \in {"none", "raised"}
               /\ pc[p] = "done" => (c.result = "raised" /\ c.exc = "LedgerWriteError")

\* The bulk load succeeded, the SUCCESS write raised, and the call raised.
C9_Witness ==
    \E p \in Procs :
        LET c == cur[p]
        IN  /\ pc[p] = "done"
            /\ c.bulk = "ok"
            /\ c.rec_success = "raised"
            /\ c.result = "raised"

\* The FAILED write raised after a failed bulk load, and the call raised the
\* ledger write error.
C9_WitnessFailedWrite ==
    \E p \in Procs :
        LET c == cur[p]
        IN  /\ pc[p] = "done"
            /\ c.bulk = "raised"
            /\ c.rec_failed = "raised"
            /\ c.exc = "LedgerWriteError"

\* --------------------------------------------------------------------- C10
\* C10 as stated (Exactly one record per attempt): every call that reached
\* the bulk-load step has created exactly one ledger record when it ends
\* (the ledger, which nobody dropped meanwhile, has one record more).
C10_ExactlyOneRecordPerAttempt ==
    \A p \in Procs :
        LET c == cur[p]
        IN  (pc[p] = "done" /\ c.bulk # "none" /\ Undisturbed(p)) => Grown(p) = 1

\* C10 amended: a call creates no record before its bulk load has concluded
\* and none if it is skipped or rejected for a missing source; a call that
\* reached the bulk-load step creates at most one record, one SUCCESS or one
\* FAILED and never both, and exactly one unless its write of the FAILED
\* record raises, in which case it creates none.  (Counted on the ledger of
\* calls during which no table was dropped.)
C10_AtMostOneRecordPerAttempt ==
    \A p \in Procs :
        LET c == cur[p]
        IN  (pc[p] # "idle" /\ Undisturbed(p))
            => /\ Grown(p) \in {0, 1}
               /\ (pc[p] \in {"check", "load", "record_success"} \/ c.bulk = "none")
                  => Grown(p) = 0
               /\ ~(c.rec_success = "ok" /\ c.rec_failed = "ok")
               /\ Grown(p) = 1
                  => /\ c.bulk # "none"
                     /\ Last(ledger).status =
                           (IF c.rec_success = "ok" THEN "SUCCESS" ELSE "FAILED")
               /\ (pc[p] = "done" /\ c.bulk # "none")
                  => Grown(p) = (IF c.rec_failed = "raised" THEN 0 ELSE 1)

\* A second attempt (the ledger already holds a record) whose bulk load
\* succeeded and whose SUCCESS write raised created exactly one record, the
\* FAILED one.
C10_Witness ==
    \E p \in Procs :
        LET c == cur[p]
        IN  /\ pc[p] = "done"
            /\ Undisturbed(p)
            /\ c.len0 > 0
            /\ c.bulk = "ok"
            /\ c.rec_success = "raised"
            /\ c.rec_failed = "ok"
            /\ Grown(p) = 1

\* --------------------------------------------------------------------- C11
\* C11 (Ledger/table consistency): when a call has loaded a file into its
\* table and ended, no table being dropped meanwhile, every SUCCESS record
\* the ledger holds for (that table, file_hash) has the hash of the rows the
\* table holds.
C11_LedgerTableConsistency ==
    \A p \in Procs :
        (pc[p] = "done" /\ cur[p].bulk = "ok" /\ Undisturbed(p))
        => \A i \in DOMAIN ledger :
              ( /\ ledger[i].status = "SUCCESS"
                /\ ledger[i].file_hash # NoHash
                /\ ledger[i].table_name = cur[p].table_name )
              => GetFileHash(tables[ledger[i].table_name]) = ledger[i].file_hash

\* --------------------------------------------------------------------- C12
\* C12 (Duplicates only when forced): in a single process, a call made with
\* skip_if_loaded=True whose idempotency query met no backend fault never
\* leaves more than one SUCCESS row for its (table_name, file_hash): only a
\* forced call adds a row for content already recorded (no table being
\* dropped meanwhile).
C12_DuplicatesOnlyWhenForced ==
    \A p \in Procs :
        LET c == cur[p]
        IN  ( /\ pc[p] = "done"
              /\ Undisturbed(p)
              /\ c.skip_if_loaded
              /\ c.rec_success = "ok"
              /\ c.query_exc # "BackendError" )
            => CountSuccess(ledger, c.table_name, c.file_hash) <= 1

\* --------------------------------------------------------------------- C17
\* C17 (Replace semantics): after a successful bulk load into table T, T
\* holds exactly the bytes the load read from the file and nothing of what it
\* held before, until somebody drops T; loading A and then a different B
\* into T leaves only B.
C17_ReplaceSemantics ==
    \A p \in Procs :
        LET c == cur[p]
        IN  (c.bulk = "ok" /\ Undisturbed(p)) => tables[c.table_name] = c.loaded

\* Table T held other rows when the call began and holds only the rows of the
\* file just loaded.
C17_Witness ==
    \E p \in Procs :
        LET c == cur[p]
        IN  /\ pc[p] = "record_success"
            /\ Undisturbed(p)
            /\ c.bulk = "ok"
            /\ c.tables0[c.table_name] # <<>>
            /\ c.tables0[c.table_name] # c.loaded
            /\ tables[c.table_name] = c.loaded

\* --------------------------------------------------------------------- C16
\* The call that p begins in this step fails fast: it raises
\* FileNotFoundError at entry, having computed no hash, asked the ledger
\* nothing, issued no bulk load and written no record.
FailsFast(p) ==
    /\ pc'[p] = "done"
    /\ cur'[p].result = "raised"
    /\ cur'[p].exc = "FileNotFoundError"
    /\ cur'[p].file_hash = NoHash
    /\ ~cur'[p].queried
    /\ cur'[p].bulk = "none"
    /\ ledger' = ledger
    /\ tables' = tables

Begins(p) == pc[p] = "idle" /\ pc'[p] # "idle"

\* C16 (Missing source fails fast): for every path that is not an existing
\* readable file (nonexistent, or existing but not readable), load_csv_file
\* raises the missing-source error before any hash, ledger query, bulk load
\* or ledger record.
C16_UnreadableSourceFailsFast ==
    [][\A p \in Procs :
          (Begins(p) /\ OpenError(files[cur'[p].path]) # "none") => FailsFast(p)
      ]_vars

\* C16 amended: load_csv_file raises FileNotFoundError before any hash,
\* ledger query, bulk load or ledger record exactly for the paths that do not
\* exist; a path that exists passes the entry check, readable or not, and the
\* call goes on to the idempotency check or the bulk load.
C16_MissingSourceFailsFast ==
    [][\A p \in Procs :
          Begins(p) =>
              IF ~files[cur'[p].path].exists
              THEN FailsFast(p)
              ELSE /\ pc'[p] = (IF cur'[p].skip_if_loaded THEN "check" ELSE "load")
                   /\ cur'[p].result = "none"
      ]_vars

\* A call on a nonexistent path has raised at entry (no table name was
\* resolved) and the ledger is as it was.
C16_Witness ==
    \E p \in Procs :
        /\ pc[p] = "done"
        /\ cur[p].exc = "FileNotFoundError"
        /\ cur[p].table_name = NoTable
        /\ ~files[cur[p].path].exists
        /\ Len(ledger) = cur[p].len0

\* A call on an existing unreadable path went past the entry check and its
\* failed bulk load has been recorded as FAILED.
C16_WitnessUnreadable ==
    \E p \in Procs :
        /\ pc[p] = "done"
        /\ Undisturbed(p)
        /\ cur[p].bulk_exc = "OSError"
        /\ cur[p].rec_failed = "ok"
        /\ Last(ledger).status = "FAILED"

\* --------------------------------------------------------------------- C15
\* The file name without its extension (its last suffix, if it has one).
WithoutExtension(filename) ==
    IF Len(filename) > 1 /\ Last(filename) \in Extensions
    THEN SubSeq(filename, 1, Len(filename) - 1)
    ELSE filename

\* C15 (Table name resolution): with no explicit table name the destination
\* table is TABLE_MAPPINGS[filename] for a mapped file name and otherwise the
\* file name with its extension removed and "_raw" appended, for every file
\* name; an explicit table name is used unchanged.
C15_TableNameResolution ==
    resolved.applied =>
        resolved.out =
            IF resolved.table_name # NoTable THEN resolved.table_name
            ELSE IF resolved.filename \in DOMAIN TABLE_MAPPINGS
                 THEN TABLE_MAPPINGS[resolved.filename]
                 ELSE WithoutExtension(resolved.filename) \o <<"_raw">>

\* --------------------------------------------------------------------- C13
\* C13 (Partial-failure isolation): load_directory does not raise because a
\* file's load_csv_file raised; every matched file is attempted, in order,
\* whatever happened to the files before it, and the mapping returned has
\* exactly the matched names, a failed file mapped to None and a loaded file
\* to its job.
C13_PartialFailureIsolation ==
    LET d == dirload
    IN  /\ (d.dir_exists => d.outcome # "raised")
        /\ (d.pc = "loop" =>
               /\ Len(d.attempts) = d.next - 1
               /\ \A i \in DOMAIN d.attempts : d.attempts[i].name = d.csv_files[i])
        /\ (d.pc = "done" /\ d.outcome = "returned" =>
               /\ Len(d.attempts) = Len(d.csv_files)
               /\ DOMAIN d.results = {d.csv_files[i] : i \in DOMAIN d.csv_files}
               /\ \A i \in DOMAIN d.attempts :
                     /\ d.attempts[i].name = d.csv_files[i]
                     /\ d.results[d.csv_files[i]] =
                            IF d.attempts[i].result = "job" THEN "job" ELSE "None")

\* The first file's load raised and left a FAILED record, the second file was
\* loaded all the same, and load_directory returned both entries.
C13_Witness ==
    LET d == dirload
    IN  /\ d.pc = "done"
        /\ d.outcome = "returned"
        /\ Len(d.attempts) = 2
        /\ d.attempts[1].result = "raised"
        /\ d.attempts[2].result = "job"
        /\ d.results[d.csv_files[1]] = "None"
        /\ d.results[d.csv_files[2]] = "job"
        /\ Len(ledger) = 2
        /\ ledger[1].status = "FAILED"
        /\ ledger[2].status = "SUCCESS"

\* --------------------------------------------------------------------- C14
\* C14: load_directory raises FileNotFoundError if and only if the directory
\* does not exist, and then no file was attempted, no table written and no
\* ledger record appended; for an existing directory without a matching file
\* it returns an empty mapping, with no effect on tables or ledger.
C14_MissingDirectoryFailsFast ==
    LET d == dirload
        NoEffect == /\ d.attempts = <<>>
                    /\ DOMAIN d.results = {}
                    /\ Len(ledger) = d.len0
                    /\ tables = d.tables0
                    /\ \A p \in Procs : pc[p] = "idle" /\ cur[p] = IdleCall
    IN  d.pc = "done" =>
            /\ (d.outcome = "raised" <=> ~d.dir_exists)
            /\ (d.outcome = "raised" => d.exc = "FileNotFoundError" /\ NoEffect)
            /\ (d.dir_exists /\ d.csv_files = <<>> =>
                   d.outcome = "returned" /\ NoEffect)

\* load_directory has raised on a missing directory.
C14_Witness ==
    /\ dirload.pc = "done"
    /\ ~dirload.dir_exists
    /\ dirload.outcome = "raised"
    /\ dirload.exc = "FileNotFoundError"
    /\ ledger = <<>>

\* load_directory has returned {} for a directory whose only entry does not
\* match "*.csv".
C14_WitnessNoMatch ==
    /\ dirload.pc = "done"
    /\ dirload.dir_exists
    /\ dirload.outcome = "returned"
    /\ dirload.csv_files = <<>>
    /\ files[NotesTxt].exists
    /\ ledger = <<>>

C18_WitnessRepeated ==
    /\ meta.exists0
    /\ Len(ledger) = MaxLedger
    /\ \A p \in Procs : meta.pc[p] = "ready"

\* --------------------------------------------------------------------- C19
\* The processes whose skip_if_loaded=True call has recorded SUCCESS for
\* (table t, hash h).
Recorders(t, h) ==
    {p \in Procs : /\ cur[p].skip_if_loaded
                   /\ cur[p].rec_success = "ok"
                   /\ cur[p].table_name = t
                   /\ cur[p].file_hash = h}

\* C19 (No cross-process mutual exclusion): two processes running
\* load_csv_file(skip_if_loaded=True) on the same file can both pass the
\* idempotency check, both load and both append SUCCESS (the witness); in
\* every interleaving the SUCCESS rows for a (table_name, file_hash) are one
\* per process that recorded it, so never more than two.
C19_AtMostOneRowPerRacer ==
    \A i \in DOMAIN ledger :
        LET r == ledger[i]
        IN  (r.status = "SUCCESS" /\ r.file_hash # NoHash) =>
                /\ CountSuccess(ledger, r.table_name, r.file_hash) =
                       Cardinality(Recorders(r.table_name, r.file_hash))
                /\ CountSuccess(ledger, r.table_name, r.file_hash) <= 2

\* Both processes asked the ledger while it held no record for the file, both
\* loaded it, and the ledger holds two SUCCESS rows for the same
\* (table_name, file_hash).
C19_Witness ==
    /\ \A p \in Procs :
          /\ pc[p] = "done"
          /\ cur[p].skip_if_loaded
          /\ cur[p].queried
          /\ ~cur[p].matched
          /\ cur[p].bulk = "ok"
          /\ cur[p].rec_success = "ok"
    /\ cur[1].table_name = cur[2].table_name
    /\ cur[1].file_hash = cur[2].file_hash
    /\ CountSuccess(ledger, cur[1].table_name, cur[1].file_hash) = 2

\* --------------------------------------------------------------------- C20
\* C20 (Convergence under the race): when two processes have loaded the same
\* bytes into the same table, both bulk loads succeeding, then once both calls
\* have finished the table holds exactly those bytes, whichever load came
\* last.
C20_RaceConverges ==
    ( /\ \A p \in Procs : pc[p] = "done" /\ cur[p].bulk = "ok"
      /\ cur[1].table_name = cur[2].table_name
      /\ cur[1].loaded = cur[2].loaded )
    => tables[cur[1].table_name] = cur[1].loaded

\* Both calls loaded the same bytes into the same table while the other was
\* under way, and both have finished.
C20_Witness ==
    /\ \A p \in Procs : pc[p] = "done" /\ cur[p].bulk = "ok" /\ cur[p].len0 = 0
    /\ cur[1].table_name = cur[2].table_name
    /\ cur[1].loaded = cur[2].loaded
    /\ cur[1].loaded # <<>>
    /\ tables[cur[1].table_name] = cur[1].loaded

\* --------------------------------------------------------------------- C21
\* C21 (Fingerprint determinism): the digest of a byte sequence fed to the
\* read loop in chunks of any size, and as the code feeds it, is the digest
\* of the same bytes fed in one piece, and _get_file_hash returns it as 32
\* hexadecimal digits.
C21_FingerprintDeterminism ==
    hashing.done =>
        /\ hashing.digest = hashing.whole
        /\ hashing.file_hash = hashing.whole
        /\ hashing.hex = HexDigest(hashing.whole)
        /\ Len(hashing.hex) = 32
        /\ \A i \in DOMAIN hashing.hex :
              \E j \in DOMAIN HexDigits : hashing.hex[i] = HexDigits[j]

\* A file of several chunks, the last one short, has been hashed.
C21_Witness ==
    /\ hashing.done
    /\ hashing.n < Len(hashing.bytes)
    /\ Len(hashing.bytes) % hashing.n # 0
    /\ hashing.digest = hashing.whole
    /\ hashing.whole # 0

\* --------------------------------------------------------------------- C22
\* C22 (Ledger lookup correctness): when the backend answers the query
\* without fault, _is_already_loaded answers True (the call is skipped) if and
\* only if the ledger holds a SUCCESS record with the call's table_name and
\* file_hash.
C22_LedgerLookupCorrect ==
    \A p \in Procs :
        (cur[p].queried /\ cur[p].query_exc # "BackendError")
        => (cur[p].result = "skipped" <=> cur[p].matched)

\* --------------------------------------------------------------------- C23
\* C23 (Fingerprint presence): the record an attempt has written, SUCCESS or
\* FAILED, carries the file's fingerprint when the attempt was made with
\* skip_if_loaded=True, and has no file_hash exactly when it was made with
\* skip_if_loaded=False (the record being the last of a ledger nobody dropped
\* meanwhile).
C23_FingerprintPresence ==
    \A p \in Procs :
        (pc[p] = "done" /\ Undisturbed(p) /\ Grown(p) = 1) =>
            /\ (Last(ledger).file_hash = NoHash <=> ~cur[p].skip_if_loaded)
            /\ (cur[p].skip_if_loaded => Last(ledger).file_hash = cur[p].file_hash)

\* --------------------------------------------------------------------- C24
\* Process p completes a ledger write in this step.
CompletesWrite(p) ==
    \/ cur[p].rec_success # "ok" /\ cur'[p].rec_success = "ok"
    \/ cur[p].rec_failed # "ok" /\ cur'[p].rec_failed = "ok"

\* C24 (Append-only ledger): in every step of any interleaving the ledger
\* keeps every record it had, unchanged and in place, and gains one record
\* at most; a step that completes a ledger write adds exactly one record, the
\* other process's records staying as they are.
C24_AppendOnlyLedger ==
    [][ /\ Len(ledger') >= Len(ledger)
        /\ Len(ledger') <= Len(ledger) + 1
        /\ SubSeq(ledger', 1, Len(ledger)) = ledger
        /\ \A p \in Procs : CompletesWrite(p) => Len(ledger') = Len(ledger) + 1
      ]_vars

\* Two calls that ran concurrently have each written their record.
C24_Witness ==
    /\ Len(ledger) = 2
    /\ \A p \in Procs :
          /\ pc[p] = "done"
          /\ cur[p].len0 = 0
          /\ (cur[p].rec_success = "ok" \/ cur[p].rec_failed = "ok")

\* --------------------------------------------------------------------- C25
\* The protocol state of p's attempt.  RESOLVING is the entry step itself
\* (Call); "NONE" is no attempt; "RAISED" is an attempt that ended by raising
\* without a FAILED record.
Phase(st, c) ==
    CASE st = "idle" -> "NONE"
      [] st = "check" -> "CHECKING_IDEMPOTENCY"
      [] st \in {"load", "wait"} -> "LOADING"
      [] st \in {"record_success", "record_failed"} -> "RECORDING"
      [] st = "done" /\ c.result = "skipped" -> "SKIPPED"
      [] st = "done" /\ c.result = "job" -> "DONE"
      [] st = "done" /\ c.result = "raised" /\ c.rec_failed = "ok" -> "FAILED_RECORDED"
      [] OTHER -> "RAISED"

Terminal == {"SKIPPED", "DONE", "FAILED_RECORDED", "RAISED"}

\* What holds of every attempt at every step: no record before the bulk load
\* has concluded, no bulk load after a skip.
RecordAfterLoad(p) ==
    /\ (ledger' # ledger /\ pc'[p] # pc[p]) => cur[p].bulk # "none"
    /\ (cur[p].result # "skipped" /\ cur'[p].result = "skipped")
       => cur'[p].bulk = "none" /\ tables' = tables

\* The edges on which an attempt ends by raising without a record: the
\* source is missing at entry, the file cannot be opened for hashing, the
\* FAILED write itself fails.
RaiseEdge(p, a, b) ==
    /\ b = "RAISED"
    /\ ledger' = ledger
    /\ \/ a = "NONE" /\ ~files[cur'[p].path].exists
       \/ a = "CHECKING_IDEMPOTENCY" /\ OpenError(files[cur'[p].path]) # "none"
       \/ a = "RECORDING" /\ cur'[p].rec_failed = "raised"

\* The edges after the entry, the same for every attempt.
LaterEdge(p, a, b) ==
    \/ a = b
    \/ a = "CHECKING_IDEMPOTENCY" /\ b \in {"SKIPPED", "LOADING"}
    \/ a = "LOADING" /\ b = "RECORDING"
    \/ a = "RECORDING" /\ b \in {"DONE", "FAILED_RECORDED"}
    \/ a \in Terminal /\ b = "NONE"
    \/ RaiseEdge(p, a, b)

\* C25 (Protocol order): an attempt moves only along RESOLVING ->
\* CHECKING_IDEMPOTENCY -> (SKIPPED | LOADING -> RECORDING -> (DONE |
\* FAILED_RECORDED)), or ends by raising; the ledger is consulted before any
\* bulk load of the attempt, a record is written only after its bulk load
\* concluded, and no bulk load follows SKIPPED.
C25_ProtocolOrder ==
    [][\A p \in Procs :
          LET a == Phase(pc[p], cur[p])
              b == Phase(pc'[p], cur'[p])
          IN  /\ \/ a = "NONE" /\ b = "CHECKING_IDEMPOTENCY"
                 \/ LaterEdge(p, a, b)
              /\ cur'[p].bulk # "none" => cur'[p].queried
              /\ RecordAfterLoad(p)
      ]_vars

\* C25 amended: an attempt on an existing source enters
\* CHECKING_IDEMPOTENCY when skip_if_loaded=True and goes from RESOLVING
\* straight to LOADING when skip_if_loaded=False; after that it moves only
\* along CHECKING_IDEMPOTENCY -> (SKIPPED | LOADING), LOADING -> RECORDING ->
\* (DONE | FAILED_RECORDED), or ends by raising.  The ledger is consulted
\* before the bulk load exactly when skip_if_loaded=True; a record is written
\* only after the attempt's bulk load concluded, and no bulk load follows
\* SKIPPED.
C25_ProtocolOrderAsCoded ==
    [][\A p \in Procs :
          LET a == Phase(pc[p], cur[p])
              b == Phase(pc'[p], cur'[p])
              c == cur'[p]
          IN  /\ \/ /\ a = "NONE"
                    /\ b # "NONE"
                    /\ files[c.path].exists
                    /\ b = IF c.skip_if_loaded THEN "CHECKING_IDEMPOTENCY"
                           ELSE "LOADING"
                 \/ LaterEdge(p, a, b)
              /\ (c.bulk # "none" => (c.queried <=> c.skip_if_loaded))
              /\ RecordAfterLoad(p)
      ]_vars

\* An attempt went through the idempotency check, the bulk load and the
\* SUCCESS record, and is DONE.
C25_Witness ==
    \E p \in Procs :
        /\ Phase(pc[p], cur[p]) = "DONE"
        /\ Undisturbed(p)
        /\ cur[p].skip_if_loaded
        /\ cur[p].queried
        /\ cur[p].bulk = "ok"
        /\ cur[p].rec_success = "ok"
        /\ Grown(p) = 1

\* A forced attempt went from RESOLVING to LOADING and is DONE; the ledger
\* was never consulted.
C25_WitnessForced ==
    \E p \in Procs :
        /\ Phase(pc[p], cur[p]) = "DONE"
        /\ ~cur[p].skip_if_loaded
        /\ ~cur[p].queried
        /\ cur[p].bulk = "ok"

\* --------------------------------------------------------------------- C26
Range(q) == {q[i] : i \in DOMAIN q}

\* C26: the mapping load_directory returns has one entry for every file the
\* pattern matched and no other, its keys in the order the files were
\* enumerated and loaded; the files enumerated are the directory's entries
\* named *.csv, each once.
C26_ResultMappingExactAndOrdered ==
    LET d == dirload
    IN  /\ \A i \in DOMAIN d.csv_files :
              /\ d.csv_files[i] \in DirPaths
              /\ Last(d.csv_files[i]) = ".csv"
              /\ \A j \in DOMAIN d.csv_files : i # j => d.csv_files[i] # d.csv_files[j]
        /\ (d.pc # "idle" => GlobCsv(files) \subseteq Range(d.csv_files))
        /\ (d.pc = "loop" => d.keys = SubSeq(d.csv_files, 1, d.next - 1))
        /\ (d.pc = "done" /\ d.outcome = "returned" =>
               /\ d.keys = d.csv_files
               /\ DOMAIN d.results = Range(d.csv_files)
               /\ d.keys = [i \in DOMAIN d.attempts |-> d.attempts[i].name])

\* A directory with two *.csv files and another entry was loaded: the mapping
\* has the two files, in the order of enumeration.
C26_Witness ==
    LET d == dirload
    IN  /\ d.pc = "done"
        /\ d.outcome = "returned"
        /\ files[NotesTxt].exists
        /\ Len(d.csv_files) = 2
        /\ d.keys = d.csv_files
        /\ d.csv_files[1] = UnknownCsv
        /\ NotesTxt \notin DOMAIN d.results

\* --------------------------------------------------------------------- C27
\* The number of attempts of the call that ended the given way.
CountAttempts(d, result) ==
    Cardinality({i \in DOMAIN d.attempts : d.attempts[i].result = result})

\* C27 (Directory summary): the summary counts the loaded files, the skipped
\* files and the failed files apart: its skipped count is the number of files
\* whose load was skipped, a file whose load raised being counted as failed,
\* and loaded, skipped and failed sum to the number of matched files.
C27_DirectorySummary ==
    LET d == dirload
    IN  (d.pc = "done" /\ d.outcome = "returned" /\ d.csv_files # <<>>) =>
            /\ d.summary.loaded = CountAttempts(d, "job")
            /\ d.summary.skipped = CountAttempts(d, "skipped")
            /\ d.summary.total_files - d.summary.loaded - d.summary.skipped
                   = CountAttempts(d, "raised")

\* --------------------------------------------------------------------- C28
\* C28 (Sequential directory load): while the loop runs the files before
\* index next have been attempted, once each and in order, the attempt under
\* way is the one for the file at next, and no other attempt runs; when the
\* call returns every matched file was attempted exactly once; and the loop,
\* once entered, ends, whatever the outcomes of the files.
C28_Sequential ==
    LET d == dirload
    IN  /\ (d.pc = "loop" =>
               /\ Len(d.attempts) = d.next - 1
               /\ d.next <= Len(d.csv_files) + 1
               /\ \A i \in DOMAIN d.attempts : d.attempts[i].name = d.csv_files[i]
               /\ \A p \in SeqProcs :
                     pc[p] # "idle" =>
                         /\ d.next <= Len(d.csv_files)
                         /\ cur[p].path = d.csv_files[d.next]
               /\ \A p \in Procs \ SeqProcs : pc[p] = "idle")
        /\ (d.pc = "done" /\ d.outcome = "returned" =>
               /\ Len(d.attempts) = Len(d.csv_files)
               /\ \A i \in DOMAIN d.attempts : d.attempts[i].name = d.csv_files[i]
               /\ \A p \in Procs : pc[p] = "idle")

C28_SequentialDirectoryLoad ==
    /\ []C28_Sequential
    /\ (dirload.pc = "loop") ~> (dirload.pc = "done" /\ dirload.outcome = "returned")

\* The call returned after a file that loaded and a file whose load raised.
C28_Witness ==
    LET d == dirload
    IN  /\ d.pc = "done"
        /\ d.outcome = "returned"
        /\ Len(d.attempts) = 2
        /\ d.attempts[1].result = "job"
        /\ d.attempts[2].result = "raised"

\* --------------------------------------------------------------------- C29
\* The SUCCESS records for table t the ledger held when p's call began.
SuccessBefore(p, t) ==
    {i \in 1..cur[p].len0 : ledger[i].table_name = t /\ ledger[i].status = "SUCCESS"}

\* C29 (A forced load is invisible to later checks): the record a forced
\* attempt writes has no file_hash; a skip_if_loaded=True call is skipped
\* only if the ledger already held a SUCCESS record with its table and hash,
\* written by a skip_if_loaded=True attempt; and when the SUCCESS records the
\* ledger held for the table all came from forced loads, the check finds no
\* match and the call goes on to the bulk load.  (Said of calls during which
\* no table was dropped: the ledger still holds what the call saw.)
C29_ForcedLoadInvisible ==
    \A p \in Procs :
        LET c == cur[p]
        IN  Undisturbed(p) =>
              /\ (pc[p] = "done" /\ ~c.skip_if_loaded /\ Grown(p) = 1)
                 => Last(ledger).file_hash = NoHash
              /\ c.result = "skipped"
                 => \E i \in SuccessBefore(p, c.table_name) :
                        ledger[i].file_hash = c.file_hash /\ c.file_hash # NoHash
              /\ ( /\ c.queried
                   /\ \A i \in SuccessBefore(p, c.table_name) :
                         ledger[i].file_hash = NoHash )
                 => /\ ~c.matched
                    /\ c.result # "skipped"
                    /\ pc[p] # "done" \/ c.bulk # "none"

\* After a forced load of the file, a skip_if_loaded=True call on the
\* unchanged file found no match and loaded the file again.
C29_Witness ==
    \E p \in Procs :
        LET c == cur[p]
        IN  /\ Undisturbed(p)
            /\ c.skip_if_loaded
            /\ c.queried
            /\ ~c.matched
            /\ c.bulk = "ok"
            /\ c.len0 = 1
            /\ ledger[1].status = "SUCCESS"
            /\ ledger[1].file_hash = NoHash
            /\ ledger[1].table_name = c.table_name
            /\ ledger[1].source_file = c.path
            /\ c.tables0[c.table_name] = c.loaded

\* --------------------------------------------------------------------- C30
\* C30 (No rollback on ledger failure): when the bulk load succeeded and the
\* SUCCESS write raised, the table keeps the new file's rows, the call goes
\* on to write a FAILED record with rows_loaded = 0 and raises, and the
\* ledger has gained no SUCCESS record: the count of SUCCESS rows for the
\* call's table and hash is what it was before the call.  (Said of calls
\* during which nobody dropped a table.)
C30_NoRollbackOnLedgerFailure ==
    \A p \in Procs :
        LET c == cur[p]
        IN  (c.bulk = "ok" /\ c.rec_success = "raised" /\ Undisturbed(p)) =>
                /\ tables[c.table_name] = c.loaded
                /\ pc[p] \in {"record_failed", "done"}
                /\ \A i \in (c.len0 + 1)..Len(ledger) :
                      /\ ledger[i].status = "FAILED"
                      /\ ledger[i].rows_loaded = 0
                /\ CountSuccess(ledger, c.table_name, c.file_hash)
                       = CountSuccess(LedgerBefore(p), c.table_name, c.file_hash)
                /\ pc[p] = "done" =>
                      /\ c.result = "raised"
                      /\ c.rec_failed \in {"ok", "raised"}
                      /\ Grown(p) = (IF c.rec_failed = "ok" THEN 1 ELSE 0)

\* The SUCCESS write raised after the table was replaced; the FAILED record
\* was written and the call raised.
C30_Witness ==
    \E p \in Procs :
        LET c == cur[p]
        IN  /\ pc[p] = "done"
            /\ Undisturbed(p)
            /\ c.skip_if_loaded
            /\ c.bulk = "ok"
            /\ c.rec_success = "raised"
            /\ c.rec_failed = "ok"
            /\ c.result = "raised"
            /\ c.tables0[c.table_name] # c.loaded
            /\ tables[c.table_name] = c.loaded
            /\ Last(ledger).status = "FAILED"
====
